---- MODULE Spec2Model ----
(***************************************************************************)
(* Model of web_crawler.py: N worker threads running get_and_process_url   *)
(* over the shared frontier (g_urls_to_be_processed,                       *)
(* g_urls_already_processed, g_num_threads_processing, g_all_done), the    *)
(* condition variable g_url_condition and the print semaphore.             *)
(*                                                                         *)
(* URLs are abstract tokens 1..NumUrls; the seed is URL 1.  The fetch and  *)
(* the parser are the environment: a fetch either fails or returns a list  *)
(* of links.  A statement executed while g_url_condition is held and that  *)
(* touches only lock-protected data is one step; `x += 1` / `x -= 1` on    *)
(* g_num_threads_processing is a load followed by a store, because the     *)
(* increment on line 81 runs after the lock was released and so races      *)
(* with the other threads' loads and stores of the same global.            *)
(***************************************************************************)
EXTENDS Integers, Sequences, FiniteSets, TLC

\* ---- bounds ----
NumWorkers == 2
NumUrls == 4
MaxLinks == 2
NumObsUrls == 3

Workers == 1..NumWorkers
Urls == 1..NumUrls
\* the pages of the web crawled in the runs that keep the observation log
ObsUrls == 1..NumObsUrls
Seed == 1
NoUrl == 0
Free == 0

VARIABLES
    g_urls_to_be_processed,    \* list, line 17
    g_urls_already_processed,  \* list, line 18
    g_num_threads_processing,  \* int, line 19
    g_all_done,                \* bool, line 20
    g_url_condition_lock,      \* owner of the lock of g_url_condition, or Free
    g_print_lock,              \* value of the semaphore, line 25
    pc,                        \* position of each thread in get_and_process_url
    page_url,                  \* local of each thread
    page_links,                \* local of each thread
    reg,                       \* value loaded by the `+=` / `-=` in progress
    printed,                   \* number of lines of the block printed so far
    seed_ok,                   \* does Request() accept the starting URL
    claims,                    \* history: times each URL was popped
    inserts,                   \* history: times each URL was appended to pending
    in_flight,                 \* history: threads that popped a URL and have
                               \* not yet stored the decrement for it
    output,                    \* observation: the lines written to stdout
    web,                       \* observation: what the fetch of each URL gave
    decs                       \* observation: decrements stored for each URL

vars == <<g_urls_to_be_processed, g_urls_already_processed,
          g_num_threads_processing, g_all_done, g_url_condition_lock,
          g_print_lock, pc, page_url, page_links, reg, printed, seed_ok,
          claims, inserts, in_flight, output, web, decs>>

shared == <<g_urls_to_be_processed, g_urls_already_processed,
            g_num_threads_processing, g_all_done>>
locals == <<page_url, page_links, reg, printed>>
history == <<claims, inserts, in_flight>>
obs == <<output, web, decs>>

\* ---- helpers ----
RECURSIVE SeqsUpTo(_, _)
SeqsUpTo(S, n) ==
    IF n = 0 THEN {<<>>}
    ELSE LET shorter == SeqsUpTo(S, n - 1)
         IN shorter \cup {Append(s, x) : s \in {t \in shorter : Len(t) = n - 1}, x \in S}

LinkLists == SeqsUpTo(Urls, MaxLinks)

Range(s) == {s[i] : i \in 1..Len(s)}

Count(s, u) == Cardinality({i \in 1..Len(s) : s[i] = u})

\* list.pop(0): the element returned and the list left behind (line 78)
PopFirstKeeps(q) == q
PopFirst(q) == Tail(q)

\* line 104: link not in g_urls_already_processed and link not in g_urls_to_be_processed
IsNewIgnoringVisited(link, visited, pending) == link \notin Range(pending)
IsNewIgnoringPending(link, visited, pending) == link \notin Range(visited)
IsNew(link, visited, pending) ==
    link \notin Range(visited) /\ link \notin Range(pending)

\* lines 103-105 with the new links put at the front of pending
RECURSIVE AddLinksPrepending(_, _, _)
AddLinksPrepending(links, visited, pending) ==
    IF links = <<>> THEN pending
    ELSE AddLinksPrepending(Tail(links), visited,
                  IF IsNew(Head(links), visited, pending)
                  THEN <<Head(links)>> \o pending ELSE pending)

\* lines 103-105: the pending list after the loop over page_links
RECURSIVE AddLinks(_, _, _)
AddLinks(links, visited, pending) ==
    IF links = <<>> THEN pending
    ELSE AddLinks(Tail(links), visited,
                  IF IsNew(Head(links), visited, pending)
                  THEN Append(pending, Head(links)) ELSE pending)

\* what is known of a page: not fetched yet, fetched and parsed ("Ok", with its
\* links), failed inside the try ("Failed"), refused by Request() ("Rejected")
Page(st, links) == [st |-> st, links |-> links]

\* Condition.notify_all(): every thread in wait() leaves it and must re-acquire
NotifyAll(p) == [v \in Workers |-> IF p[v] = "waiting" THEN "woken" ELSE p[v]]

\* ---- main(), lines 142-149 ----
\* the module globals of lines 17-25 and the seeding of line 142
InitData ==
    /\ g_urls_to_be_processed = <<Seed>>
    /\ g_urls_already_processed = <<>>
    /\ g_num_threads_processing = 0
    /\ g_all_done = FALSE
    /\ g_url_condition_lock = Free
    /\ g_print_lock = 1
    /\ page_url = [w \in Workers |-> NoUrl]
    /\ page_links = [w \in Workers |-> <<>>]
    /\ reg = [w \in Workers |-> 0]
    /\ printed = [w \in Workers |-> 0]
    /\ seed_ok \in BOOLEAN
    /\ claims = [u \in Urls |-> 0]
    /\ inserts = [u \in Urls |-> IF u = Seed THEN 1 ELSE 0]
    /\ in_flight = {}
    /\ output = <<>>
    /\ web = [u \in Urls |-> Page("NotFetched", <<>>)]
    /\ decs = [u \in Urls |-> 0]

\* lines 144-149 with num_threads = NumWorkers: every thread is started
Init ==
    /\ InitData
    /\ pc = [w \in Workers |-> "acquire"]

\* lines 139-149 with num_threads = n: only the first n threads exist
InitObs ==
    /\ InitData
    /\ \E n \in 1..NumWorkers :
           pc = [w \in Workers |-> IF w <= n THEN "acquire" ELSE "NotStarted"]

\* ---- get_and_process_url ----
\* line 74 (and the re-acquire at the end of wait(), line 92)
Acquire(w) ==
    /\ pc[w] \in {"acquire", "woken"}
    /\ g_url_condition_lock = Free
    /\ g_url_condition_lock' = w
    /\ pc' = [pc EXCEPT ![w] = "claim"]
    /\ UNCHANGED <<shared, g_print_lock, locals, seed_ok, history>>

\* lines 77-80: pop, append to already-processed, release
ClaimDequeue(w) ==
    /\ pc[w] = "claim"
    /\ Len(g_urls_to_be_processed) > 0
    /\ page_url' = [page_url EXCEPT ![w] = Head(g_urls_to_be_processed)]
    /\ claims' = [claims EXCEPT ![Head(g_urls_to_be_processed)] = @ + 1]
    /\ g_urls_to_be_processed' = PopFirst(g_urls_to_be_processed)
    /\ g_urls_already_processed' =
           Append(g_urls_already_processed, Head(g_urls_to_be_processed))
    /\ g_url_condition_lock' = Free
    /\ in_flight' = in_flight \cup {w}
    /\ pc' = [pc EXCEPT ![w] = "inc_load"]
    /\ UNCHANGED <<g_num_threads_processing, g_all_done, g_print_lock,
                   page_links, reg, printed, seed_ok, inserts>>

\* line 81, first half of `g_num_threads_processing += 1`
IncLoad(w) ==
    /\ pc[w] = "inc_load"
    /\ reg' = [reg EXCEPT ![w] = g_num_threads_processing]
    /\ pc' = [pc EXCEPT ![w] = "inc_store"]
    /\ UNCHANGED <<shared, g_url_condition_lock, g_print_lock, page_url,
                   page_links, printed, seed_ok, history>>

\* line 81, second half; line 82 leaves the inner loop
IncStore(w) ==
    /\ pc[w] = "inc_store"
    /\ g_num_threads_processing' = reg[w] + 1
    /\ reg' = [reg EXCEPT ![w] = 0]
    /\ pc' = [pc EXCEPT ![w] = "request"]
    /\ UNCHANGED <<g_urls_to_be_processed, g_urls_already_processed, g_all_done,
                   g_url_condition_lock, g_print_lock, page_url, page_links,
                   printed, seed_ok, history>>

\* lines 83-85
ClaimAlreadyDone(w) ==
    /\ pc[w] = "claim"
    /\ Len(g_urls_to_be_processed) = 0
    /\ g_all_done
    /\ g_url_condition_lock' = Free
    /\ pc' = [pc EXCEPT ![w] = "Done"]
    /\ UNCHANGED <<shared, g_print_lock, locals, seed_ok, history>>

\* lines 86-90 without the notify_all of line 90
ClaimDecideDoneNoNotify(w) ==
    /\ pc[w] = "claim"
    /\ Len(g_urls_to_be_processed) = 0
    /\ ~g_all_done
    /\ g_num_threads_processing = 0
    /\ g_all_done' = TRUE
    /\ g_url_condition_lock' = Free
    /\ pc' = [pc EXCEPT ![w] = "Done"]
    /\ UNCHANGED <<g_urls_to_be_processed, g_urls_already_processed,
                   g_num_threads_processing, g_print_lock, locals, seed_ok,
                   history>>

\* lines 86-90
ClaimDecideDone(w) ==
    /\ pc[w] = "claim"
    /\ Len(g_urls_to_be_processed) = 0
    /\ ~g_all_done
    /\ g_num_threads_processing = 0
    /\ g_all_done' = TRUE
    /\ g_url_condition_lock' = Free
    /\ pc' = [NotifyAll(pc) EXCEPT ![w] = "Done"]
    /\ UNCHANGED <<g_urls_to_be_processed, g_urls_already_processed,
                   g_num_threads_processing, g_print_lock, locals, seed_ok,
                   history>>

\* lines 91-92: wait() releases the lock and blocks
ClaimWait(w) ==
    /\ pc[w] = "claim"
    /\ Len(g_urls_to_be_processed) = 0
    /\ ~g_all_done
    /\ g_num_threads_processing # 0
    /\ g_url_condition_lock' = Free
    /\ pc' = [pc EXCEPT ![w] = "waiting"]
    /\ UNCHANGED <<shared, g_print_lock, locals, seed_ok, history>>

\* line 95: Request(page_url) accepts the URL
RequestOk(w) ==
    /\ pc[w] = "request"
    /\ page_url[w] # Seed \/ seed_ok
    /\ pc' = [pc EXCEPT ![w] = "fetch"]
    /\ UNCHANGED <<shared, g_url_condition_lock, g_print_lock, locals, seed_ok,
                   history>>

\* line 95: Request(page_url) raises ValueError outside the try; the thread dies
RequestRaises(w) ==
    /\ pc[w] = "request"
    /\ page_url[w] = Seed /\ ~seed_ok
    /\ pc' = [pc EXCEPT ![w] = "Crashed"]
    /\ UNCHANGED <<shared, g_url_condition_lock, g_print_lock, locals, seed_ok,
                   history>>

\* lines 97-100: urlopen, read, decode and parse succeed
FetchOk(w) ==
    /\ pc[w] = "fetch"
    /\ \E links \in LinkLists : page_links' = [page_links EXCEPT ![w] = links]
    /\ pc' = [pc EXCEPT ![w] = "pub_acquire"]
    /\ UNCHANGED <<shared, g_url_condition_lock, g_print_lock, page_url, reg,
                   printed, seed_ok, history>>

\* lines 97-100 raise and the exception is swallowed without the decrement
FetchFailNoDecrement(w) ==
    /\ pc[w] = "fetch"
    /\ pc' = [pc EXCEPT ![w] = "acquire"]
    /\ page_url' = [page_url EXCEPT ![w] = NoUrl]
    /\ in_flight' = in_flight \ {w}
    /\ UNCHANGED <<shared, g_url_condition_lock, g_print_lock, page_links, reg,
                   printed, seed_ok, claims, inserts>>

\* lines 97-100: one of them raises; control goes to the except clause, line 118
FetchFail(w) ==
    /\ pc[w] = "fetch"
    /\ pc' = [pc EXCEPT ![w] = "exc_acquire"]
    /\ UNCHANGED <<shared, g_url_condition_lock, g_print_lock, locals, seed_ok,
                   history>>

\* line 102 left out: the publish runs without the lock
PubAcquireNoLock(w) ==
    /\ pc[w] = "pub_acquire"
    /\ pc' = [pc EXCEPT ![w] = "publish"]
    /\ UNCHANGED <<shared, g_url_condition_lock, g_print_lock, locals, seed_ok,
                   history>>

\* line 102
PubAcquire(w) ==
    /\ pc[w] = "pub_acquire"
    /\ g_url_condition_lock = Free
    /\ g_url_condition_lock' = w
    /\ pc' = [pc EXCEPT ![w] = "publish"]
    /\ UNCHANGED <<shared, g_print_lock, locals, seed_ok, history>>

\* lines 103-108 with the notify_all made unconditional
PublishLinksAlwaysNotify(w) ==
    /\ pc[w] = "publish"
    /\ g_urls_to_be_processed' =
           AddLinks(page_links[w], g_urls_already_processed, g_urls_to_be_processed)
    /\ inserts' = [u \in Urls |-> inserts[u]
                       + Count(g_urls_to_be_processed', u)
                       - Count(g_urls_to_be_processed, u)]
    /\ pc' = [NotifyAll(pc) EXCEPT ![w] = "dec_load"]
    /\ UNCHANGED <<g_urls_already_processed, g_num_threads_processing, g_all_done,
                   g_url_condition_lock, g_print_lock, locals, seed_ok, claims,
                   in_flight>>

\* lines 103-108: insert the new links, notify_all if pending is not empty
PublishLinks(w) ==
    /\ pc[w] = "publish"
    /\ g_urls_to_be_processed' =
           AddLinks(page_links[w], g_urls_already_processed, g_urls_to_be_processed)
    /\ inserts' = [u \in Urls |-> inserts[u]
                       + Count(g_urls_to_be_processed', u)
                       - Count(g_urls_to_be_processed, u)]
    /\ pc' = [IF Len(g_urls_to_be_processed') > 0 THEN NotifyAll(pc) ELSE pc
                  EXCEPT ![w] = "dec_load"]
    /\ UNCHANGED <<g_urls_already_processed, g_num_threads_processing, g_all_done,
                   g_url_condition_lock, g_print_lock, locals, seed_ok, claims,
                   in_flight>>

\* line 110, first half of `g_num_threads_processing -= 1`
DecLoad(w) ==
    /\ pc[w] = "dec_load"
    /\ reg' = [reg EXCEPT ![w] = g_num_threads_processing]
    /\ pc' = [pc EXCEPT ![w] = "dec_store"]
    /\ UNCHANGED <<shared, g_url_condition_lock, g_print_lock, page_url,
                   page_links, printed, seed_ok, history>>

\* line 110, second half, and the release of line 111
DecStore(w) ==
    /\ pc[w] = "dec_store"
    /\ g_num_threads_processing' = reg[w] - 1
    /\ reg' = [reg EXCEPT ![w] = 0]
    /\ g_url_condition_lock' = Free
    /\ in_flight' = in_flight \ {w}
    /\ pc' = [pc EXCEPT ![w] = "print_acquire"]
    /\ UNCHANGED <<g_urls_to_be_processed, g_urls_already_processed, g_all_done,
                   g_print_lock, page_url, page_links, printed, seed_ok, claims,
                   inserts>>

\* line 113 without waiting for the semaphore
PrintAcquireNoWait(w) ==
    /\ pc[w] = "print_acquire"
    /\ g_print_lock' = g_print_lock - 1
    /\ pc' = [pc EXCEPT ![w] = "print"]
    /\ UNCHANGED <<shared, g_url_condition_lock, locals, seed_ok, history>>

\* line 113
PrintAcquire(w) ==
    /\ pc[w] = "print_acquire"
    /\ g_print_lock > 0
    /\ g_print_lock' = g_print_lock - 1
    /\ pc' = [pc EXCEPT ![w] = "print"]
    /\ UNCHANGED <<shared, g_url_condition_lock, locals, seed_ok, history>>

\* lines 114-116: one print() call writes its line
PrintLine(w) ==
    /\ pc[w] = "print"
    /\ printed[w] < 1 + Len(page_links[w])
    /\ printed' = [printed EXCEPT ![w] = @ + 1]
    /\ UNCHANGED <<shared, g_url_condition_lock, g_print_lock, pc, page_url,
                   page_links, reg, seed_ok, history>>

\* lines 114-116: a print() call raises (UnicodeEncodeError, a closed stdout);
\* control goes to the except clause with g_print_lock still taken
PrintRaises(w) ==
    /\ pc[w] = "print"
    /\ printed[w] < 1 + Len(page_links[w])
    /\ printed' = [printed EXCEPT ![w] = 0]
    /\ page_links' = [page_links EXCEPT ![w] = <<>>]
    /\ pc' = [pc EXCEPT ![w] = "exc_acquire"]
    /\ UNCHANGED <<shared, g_url_condition_lock, g_print_lock, page_url, reg,
                   seed_ok, history>>

\* line 117, then back to line 73
PrintRelease(w) ==
    /\ pc[w] = "print"
    /\ printed[w] = 1 + Len(page_links[w])
    /\ g_print_lock' = g_print_lock + 1
    /\ printed' = [printed EXCEPT ![w] = 0]
    /\ page_links' = [page_links EXCEPT ![w] = <<>>]
    /\ page_url' = [page_url EXCEPT ![w] = NoUrl]
    /\ pc' = [pc EXCEPT ![w] = "acquire"]
    /\ UNCHANGED <<shared, g_url_condition_lock, reg, seed_ok, history>>

\* line 124
ExcAcquire(w) ==
    /\ pc[w] = "exc_acquire"
    /\ g_url_condition_lock = Free
    /\ g_url_condition_lock' = w
    /\ pc' = [pc EXCEPT ![w] = "exc_load"]
    /\ UNCHANGED <<shared, g_print_lock, locals, seed_ok, history>>

\* line 125, first half of `g_num_threads_processing -= 1`
ExcLoad(w) ==
    /\ pc[w] = "exc_load"
    /\ reg' = [reg EXCEPT ![w] = g_num_threads_processing]
    /\ pc' = [pc EXCEPT ![w] = "exc_store"]
    /\ UNCHANGED <<shared, g_url_condition_lock, g_print_lock, page_url,
                   page_links, printed, seed_ok, history>>

\* line 125, second half, the release of line 126, then back to line 73
ExcStore(w) ==
    /\ pc[w] = "exc_store"
    /\ g_num_threads_processing' = reg[w] - 1
    /\ reg' = [reg EXCEPT ![w] = 0]
    /\ g_url_condition_lock' = Free
    /\ page_url' = [page_url EXCEPT ![w] = NoUrl]
    /\ in_flight' = in_flight \ {w}
    /\ pc' = [pc EXCEPT ![w] = "acquire"]
    /\ UNCHANGED <<g_urls_to_be_processed, g_urls_already_processed, g_all_done,
                   g_print_lock, page_links, printed, seed_ok, claims, inserts>>

\* what a step of thread w adds to the observations: the line a print() call
\* wrote (page, position in the block, link), the outcome of a fetch, and the
\* decrement stored for the page the thread holds
Line(w) ==
    [page |-> page_url[w], idx |-> printed[w],
     link |-> IF printed[w] = 0 THEN NoUrl ELSE page_links[w][printed[w]]]

Observe(w) ==
    /\ output' = IF pc[w] = "print" /\ printed'[w] = printed[w] + 1
                 THEN Append(output, Line(w)) ELSE output
    /\ web' = IF pc[w] = "fetch" /\ pc'[w] = "pub_acquire"
                 THEN [web EXCEPT ![page_url[w]] = Page("Ok", page_links'[w])]
              ELSE IF pc[w] = "fetch" /\ pc'[w] # "fetch"
                 THEN [web EXCEPT ![page_url[w]] = Page("Failed", <<>>)]
              ELSE IF pc[w] = "request" /\ pc'[w] = "Crashed"
                 THEN [web EXCEPT ![page_url[w]] = Page("Rejected", <<>>)]
              ELSE web
    /\ decs' = IF /\ pc[w] \in {"dec_store", "exc_store"}
                  /\ g_num_threads_processing' = reg[w] - 1
                 THEN [decs EXCEPT ![page_url[w]] = @ + 1] ELSE decs

\* the program, observations not kept
Next ==
    \E w \in Workers :
        \/ Acquire(w) /\ UNCHANGED obs
        \/ ClaimDequeue(w) /\ UNCHANGED obs
        \/ IncLoad(w) /\ UNCHANGED obs
        \/ IncStore(w) /\ UNCHANGED obs
        \/ ClaimAlreadyDone(w) /\ UNCHANGED obs
        \/ ClaimDecideDone(w) /\ UNCHANGED obs
        \/ ClaimWait(w) /\ UNCHANGED obs
        \/ RequestOk(w) /\ UNCHANGED obs
        \/ RequestRaises(w) /\ UNCHANGED obs
        \/ FetchOk(w) /\ UNCHANGED obs
        \/ FetchFail(w) /\ UNCHANGED obs
        \/ PubAcquire(w) /\ UNCHANGED obs
        \/ PublishLinks(w) /\ UNCHANGED obs
        \/ DecLoad(w) /\ UNCHANGED obs
        \/ DecStore(w) /\ UNCHANGED obs
        \/ PrintAcquire(w) /\ UNCHANGED obs
        \/ PrintLine(w) /\ UNCHANGED obs
        \/ PrintRaises(w) /\ UNCHANGED obs
        \/ PrintRelease(w) /\ UNCHANGED obs
        \/ ExcAcquire(w) /\ UNCHANGED obs
        \/ ExcLoad(w) /\ UNCHANGED obs
        \/ ExcStore(w) /\ UNCHANGED obs

Spec == Init /\ [][Next]_vars

\* the program crawling a web of NumObsUrls pages with 1..NumWorkers threads,
\* observations kept
NextObs ==
    \E w \in Workers :
        \/ Acquire(w) /\ Observe(w)
        \/ ClaimDequeue(w) /\ Observe(w)
        \/ IncLoad(w) /\ Observe(w)
        \/ IncStore(w) /\ Observe(w)
        \/ ClaimAlreadyDone(w) /\ Observe(w)
        \/ ClaimDecideDone(w) /\ Observe(w)
        \/ ClaimWait(w) /\ Observe(w)
        \/ RequestOk(w) /\ Observe(w)
        \/ RequestRaises(w) /\ Observe(w)
        \/ FetchOk(w) /\ Range(page_links'[w]) \subseteq ObsUrls /\ Observe(w)
        \/ FetchFail(w) /\ Observe(w)
        \/ PubAcquire(w) /\ Observe(w)
        \/ PublishLinks(w) /\ Observe(w)
        \/ DecLoad(w) /\ Observe(w)
        \/ DecStore(w) /\ Observe(w)
        \/ PrintAcquire(w) /\ Observe(w)
        \/ PrintLine(w) /\ Observe(w)
        \/ PrintRaises(w) /\ Observe(w)
        \/ PrintRelease(w) /\ Observe(w)
        \/ ExcAcquire(w) /\ Observe(w)
        \/ ExcLoad(w) /\ Observe(w)
        \/ ExcStore(w) /\ Observe(w)

SpecObs == InitObs /\ [][NextObs]_vars

\* ---- properties ----
Returned(w) == pc[w] \in {"Done", "Crashed"}

\* C1: every worker eventually returns from get_and_process_url, so no
\* reachable state has a worker that has not returned while no thread can
\* take a step any more (blocked forever in wait() or on a lock).
NoWorkerBlockedForever ==
    (\E w \in Workers : ~Returned(w)) => ENABLED Next

\* C2: g_all_done is set only in a state where pending is empty and no
\* worker is between having popped a URL and having published its result.
DoneOnlyAtQuiescence ==
    [][(~g_all_done /\ g_all_done')
        => (g_urls_to_be_processed = <<>> /\ in_flight = {})]_vars

\* C3: once g_all_done is true no more work is produced: pending stays
\* empty, no link is inserted into it and no claim returns a URL.
NoWorkAfterDone ==
    [][g_all_done
        => (g_urls_to_be_processed' = <<>> /\ inserts' = inserts
            /\ claims' = claims)]_vars

\* C4: a thread that is about to read or write pending, visited,
\* g_num_threads_processing or g_all_done holds the frontier lock.
FrontierPcs ==
    {"claim", "inc_load", "inc_store", "publish", "dec_load", "dec_store",
     "exc_load", "exc_store"}
FrontierAccessUnderLock ==
    \A w \in Workers : pc[w] \in FrontierPcs => g_url_condition_lock = w

\* C5: g_num_threads_processing equals the number of workers that have
\* popped a URL and not yet finished publishing its result.
ActiveCountExact ==
    g_num_threads_processing = Cardinality(in_flight)

\* C6: g_num_threads_processing is always >= 0 and <= N.
ActiveCountInRange ==
    g_num_threads_processing >= 0 /\ g_num_threads_processing <= NumWorkers

\* C7: each URL is popped from pending at most once over the whole run.
AtMostOneClaim ==
    \A u \in Urls : claims[u] <= 1
\* a worker has published a page that links to a URL claimed before
ClaimedUrlLinkedAgain ==
    \E w \in Workers, u \in Urls :
        /\ pc[w] = "print_acquire"
        /\ u \in Range(page_links[w])
        /\ u # page_url[w]
        /\ claims[u] = 1

VisitedIsDequeued ==
    /\ Range(g_urls_already_processed) = {u \in Urls : claims[u] > 0}
    /\ Range(g_urls_to_be_processed) \cap Range(g_urls_already_processed) = {}
\* a publish of links to visited pages has run while both lists are populated
VisitedLinkPublished ==
    \E w \in Workers :
        /\ pc[w] = "dec_load"
        /\ (Range(page_links[w]) \cap Range(g_urls_already_processed))
               \ {page_url[w]} # {}
        /\ Len(g_urls_already_processed) >= 2
        /\ Len(g_urls_to_be_processed) >= 1

\* C10: pending never holds a URL twice: a link is inserted into pending at
\* most once however often and by however many workers it is published,
\* every inserted link is either still pending or was claimed once, and when
\* all workers have returned every inserted link was claimed exactly once.
PendingHasNoDuplicates ==
    /\ \A u \in Urls : Count(g_urls_to_be_processed, u) <= 1
    /\ \A u \in Urls : inserts[u] <= 1
    /\ \A u \in Urls : claims[u] + Count(g_urls_to_be_processed, u) = inserts[u]
    /\ (\A w \in Workers : pc[w] = "Done")
           => \A u \in Urls : claims[u] = inserts[u]
\* one worker has published a page listing a new link twice while another
\* worker is about to publish a page that lists the same link
DuplicateLinkPublished ==
    \E w, v \in Workers, u \in Urls :
        /\ w # v
        /\ pc[w] = "dec_load"
        /\ page_links[w] = <<u, u>>
        /\ pc[v] = "pub_acquire"
        /\ u \in Range(page_links[v])
        /\ inserts[u] = 1
        /\ Count(g_urls_to_be_processed, u) = 1

\* C11: output blocks are atomic: at most one worker is inside the print
\* section, and every link line of the output directly follows the previous
\* line of the same page's block, so no other worker's line is in between.
AtomicOutputBlocks ==
    /\ Cardinality({w \in Workers : pc[w] = "print"}) <= 1
    /\ \A i \in 1..Len(output) :
           output[i].idx > 0
               => /\ i > 1
                  /\ output[i - 1].page = output[i].page
                  /\ output[i - 1].idx = output[i].idx - 1
\* a worker is in the middle of a block of three lines while another worker
\* that has a block to print waits for the semaphore
PrinterWaitsForBlock ==
    \E w, v \in Workers :
        /\ pc[w] = "print" /\ printed[w] = 1 /\ Len(page_links[w]) = 2
        /\ pc[v] = "print_acquire" /\ Len(page_links[v]) >= 1
        /\ Len(output) >= 3

\* the page was claimed and its worker is back at the top of the loop
Handled(u) == claims[u] = 1 /\ \A w \in Workers : page_url[w] # u

\* C12: when the fetch of X fails, the worker that fetched X goes on, and the
\* URLs linked from the same parent page as X are all claimed and processed
\* to the end: the run never stops with one of them not handled.
SiblingsOfFailed ==
    {y \in Urls : \E p, x \in Urls :
        /\ web[p].st = "Ok" /\ web[x].st = "Failed"
        /\ x # y /\ {x, y} \subseteq Range(web[p].links)}
FailureIsolation ==
    /\ \A w \in Workers :
           (page_url[w] # NoUrl /\ web[page_url[w]].st = "Failed")
               => pc[w] \in {"exc_acquire", "exc_load", "exc_store"}
    /\ (\A y \in SiblingsOfFailed : Handled(y)) \/ ENABLED NextObs

\* C13: when fetch, decode or parse of a claimed URL fails, the URL stays in
\* visited and never enters pending again, the failure handling leaves
\* pending alone, the count is decremented exactly once for that claim, and
\* no output line is printed for that URL.
FailedUrlState ==
    \A u \in Urls :
        web[u].st = "Failed"
            => /\ u \in Range(g_urls_already_processed)
               /\ u \notin Range(g_urls_to_be_processed)
               /\ inserts[u] = 1
               /\ decs[u] <= 1
               /\ Handled(u) => decs[u] = 1
               /\ \A i \in 1..Len(output) : output[i].page # u
FailedUrlStep ==
    \A w \in Workers :
        (\/ pc[w] = "fetch" /\ pc'[w] \notin {"fetch", "pub_acquire"}
         \/ pc[w] \in {"exc_acquire", "exc_load", "exc_store"} /\ pc'[w] # pc[w])
            => /\ g_urls_to_be_processed' = g_urls_to_be_processed
               /\ g_urls_already_processed' = g_urls_already_processed
RECURSIVE SumOver(_, _)
SumOver(f, S) ==
    IF S = {} THEN 0
    ELSE LET u == CHOOSE x \in S : TRUE IN f[u] + SumOver(f, S \ {u})

Started(w) == pc[w] # "NotStarted"

\* C14: if the fetch of the starting URL fails, all workers terminate (the
\* run never stops with a started worker that has not returned), exactly one
\* URL has been claimed and no output line has been printed.
SeedFetchFailed == web[Seed].st \in {"Failed", "Rejected"}
SeedFailureTerminates ==
    SeedFetchFailed
        => /\ (\A w \in Workers : Started(w) => Returned(w)) \/ ENABLED NextObs
           /\ SumOver(claims, Urls) = 1
           /\ output = <<>>

\* ---- the crawl as a function of the web ----
LinksOf(u) == IF web[u].st = "Ok" THEN web[u].links ELSE <<>>

\* the links of a page that were not discovered before, first occurrences only
RECURSIVE Fresh(_, _)
Fresh(links, seen) ==
    IF links = <<>> THEN <<>>
    ELSE IF Head(links) \in seen THEN Fresh(Tail(links), seen)
    ELSE <<Head(links)>> \o Fresh(Tail(links), seen \cup {Head(links)})

\* breadth-first discovery order from a queue of discovered pages
RECURSIVE Bfs(_, _)
Bfs(queue, seen) ==
    IF queue = <<>> THEN <<>>
    ELSE LET f == Fresh(LinksOf(Head(queue)), seen)
         IN <<Head(queue)>> \o Bfs(Tail(queue) \o f, seen \cup Range(f))

\* the pages reachable from the seed through links of pages fetched and parsed
RECURSIVE Closure(_)
Closure(S) ==
    LET T == S \cup UNION {Range(LinksOf(u)) : u \in S}
    IN IF T = S THEN S ELSE Closure(T)
Reachable == Closure({Seed})

\* the block of a page: its URL line, then one line per link as extracted
Block(u) ==
    <<[page |-> u, idx |-> 0, link |-> NoUrl]>>
        \o [i \in 1..Len(web[u].links) |->
               [page |-> u, idx |-> i, link |-> web[u].links[i]]]
RECURSIVE Blocks(_)
Blocks(order) ==
    IF order = <<>> THEN <<>>
    ELSE (IF web[Head(order)].st = "Ok" THEN Block(Head(order)) ELSE <<>>)
             \o Blocks(Tail(order))

IsPrefix(s, t) == Len(s) <= Len(t) /\ SubSeq(t, 1, Len(s)) = s

SingleWorker == Cardinality({w \in Workers : Started(w)}) = 1

\* C15: with one worker the run is determined by the web: pages are claimed
\* in breadth-first discovery order from the seed, the output is the blocks
\* of the fetched pages in that order with all their links as extracted, and
\* when the worker has returned the number of claims is the number of URLs
\* reachable from the seed.
SingleWorkerRun ==
    SingleWorker
        => /\ IsPrefix(g_urls_already_processed, Bfs(<<Seed>>, {Seed}))
           /\ IsPrefix(output, Blocks(Bfs(<<Seed>>, {Seed})))
           /\ (\A w \in Workers : Started(w) => pc[w] = "Done")
                  => /\ g_urls_already_processed = Bfs(<<Seed>>, {Seed})
                     /\ output = Blocks(g_urls_already_processed)
                     /\ SumOver(claims, Urls) = Cardinality(Reachable)
\* the chain A -> [B], B -> [A, C], C -> []: the worker has returned after
\* 3 claims and the output is block A [B], block B [A, C], block C []
ChainCrawled ==
    /\ SingleWorker /\ pc[1] = "Done"
    /\ web[1] = Page("Ok", <<2>>)
    /\ web[2] = Page("Ok", <<1, 3>>)
    /\ web[3] = Page("Ok", <<>>)
    /\ SumOver(claims, Urls) = 3
    /\ output = <<[page |-> 1, idx |-> 0, link |-> NoUrl],
                  [page |-> 1, idx |-> 1, link |-> 2],
                  [page |-> 2, idx |-> 0, link |-> NoUrl],
                  [page |-> 2, idx |-> 1, link |-> 1],
                  [page |-> 2, idx |-> 2, link |-> 3],
                  [page |-> 3, idx |-> 0, link |-> NoUrl]>>

\* C16: on the success path publish is one critical section: from the
\* insertion of the links to the store of the decrement the worker holds the
\* frontier lock, so whenever a worker's decrement for a page is visible (it
\* has left the section) all links of that page are in pending or visited.
PublishIsOneSection ==
    \A w \in Workers :
        /\ pc[w] \in {"publish", "dec_load", "dec_store"}
               => g_url_condition_lock = w
        /\ pc[w] \in {"dec_load", "dec_store", "print_acquire", "print"}
               => Range(page_links[w]) \subseteq
                      Range(g_urls_to_be_processed)
                          \cup Range(g_urls_already_processed)
\* a worker is inside the publish section, its links inserted and its
\* decrement not yet stored, while the other worker wants the lock to claim
ClaimWaitsForPublish ==
    \E w, v \in Workers :
        /\ pc[w] = "dec_store" /\ Len(page_links[w]) = 2
        /\ Len(g_urls_to_be_processed) >= 1
        /\ pc[v] \in {"acquire", "woken"}

\* C17: a worker blocked in wait() is woken only by a publish during which
\* pending went from empty to non-empty or by another worker setting
\* g_all_done, and a woken worker goes on only by re-acquiring the lock and
\* evaluating the claim branches again.
WokenOnlyByWorkOrDone ==
    [][\A w \in Workers :
          /\ (pc[w] = "waiting" /\ pc'[w] # "waiting")
                 => /\ pc'[w] = "woken"
                    /\ \/ g_urls_to_be_processed = <<>>
                              /\ g_urls_to_be_processed' # <<>>
                       \/ ~g_all_done /\ g_all_done'
          /\ (pc[w] = "woken" /\ pc'[w] # "woken")
                 => pc'[w] = "claim" /\ g_url_condition_lock' = w]_vars
\* a publish has woken a waiting worker: the publisher is still in its
\* critical section and pending is not empty
WokenByPublish ==
    \E w, v \in Workers :
        /\ pc[w] = "woken" /\ pc[v] = "dec_load"
        /\ g_urls_to_be_processed # <<>> /\ ~g_all_done

\* C18: no wake-up is missed: whenever a worker is blocked in wait() and has
\* not been notified, pending is empty and g_all_done is false.
NoMissedWakeup ==
    \A w \in Workers :
        pc[w] = "waiting" => g_urls_to_be_processed = <<>> /\ ~g_all_done
\* a worker is blocked in wait() while another is about to insert the links
\* of its page, at least one of them new
WaiterBeforePublish ==
    \E w, v \in Workers :
        /\ pc[w] = "waiting" /\ pc[v] = "publish"
        /\ \E i \in 1..Len(page_links[v]) :
               IsNew(page_links[v][i], g_urls_already_processed,
                     g_urls_to_be_processed)

\* C19: in the state where every started worker has ended, pending is empty,
\* g_all_done is true, and visited holds the seed and every URL reachable
\* from the seed through the links of the pages fetched with success.
CrawlCompleteAtExit ==
    (\A w \in Workers : Started(w) => Returned(w))
        => /\ g_urls_to_be_processed = <<>>
           /\ g_all_done
           /\ Seed \in Range(g_urls_already_processed)
           /\ Reachable \subseteq Range(g_urls_already_processed)

\* C20: every dequeue of a URL is followed, before the worker's next claim,
\* by exactly one decrement of g_num_threads_processing and by the release of
\* every lock the worker took: a URL whose worker has gone back to the claim
\* loop has one decrement recorded, a worker at the top of the loop, blocked
\* in wait() or returned does not hold the condition lock, and the print
\* semaphore is taken only while some worker is printing.
DequeueSettledOnce ==
    /\ \A u \in Urls : Handled(u) => decs[u] = 1
    /\ \A w \in Workers :
           pc[w] \in {"acquire", "waiting", "woken", "Done"}
               => g_url_condition_lock # w
    /\ g_print_lock = 0 => \E w \in Workers : pc[w] = "print"
====
